---- MODULE Spec2Model ----
(***************************************************************************)
(* The ticket server of src/server.py: one thread per connection           *)
(* (handle_client), all threads sharing one sqlite3 connection `conn` and  *)
(* one `cursor`.  Every cursor.execute, cursor.fetchone and conn.commit of *)
(* a handler is one step, so the steps of different connections            *)
(* interleave as the threads of the server do.                             *)
(***************************************************************************)
EXTENDS Integers, Sequences, FiniteSets, TLC

\* ---------------------------------------------------------------- bounds
NumWorkers == 2       \* live connections (one handle_client thread each)
MaxRequests == 2      \* requests received in one run, all connections together
MaxTickets == 1       \* largest inventory per tier at server start
MaxNameLen == 3       \* symbols in the username of a login request
MaxPassLen == 1       \* symbols in the password of a login request

\* ------------------------------------------------------ program constants
DefaultPoints == 100      \* users.points DEFAULT 100
RegularCost == 40         \* seed row "LiSA Live Concert", regular_cost
VipCost == 80             \* seed row "LiSA Live Concert", vip_cost
LoyaltyCount == 3         \* if purchase_count >= 3

Workers == 1..NumWorkers
None == <<>>              \* Python None where a row is expected (fetchone at the end)
NoId == 0                 \* an id a request does not carry (request.get -> None)
Unbindable == "[list]"    \* a JSON array: a value sqlite3 cannot bind as a parameter
TicketTypes == {"Regular", "VIP", "Gold", Unbindable}
Effects == {"debit", "decrement", "row"}

\* A string is the sequence of its symbols: a word without quote or dash, a
\* single quote, or two dashes.
Quote == "'"
Dashes == "--"
Str(word) == <<word>>

VARIABLES
    users,       \* table users as the shared connection sees it: id -> row
    events,      \* table events as the shared connection sees it
    purchases,   \* table purchases as the shared connection sees it
    disk,        \* the committed database: what the last conn.commit() made durable
    cursor,      \* the one cursor of all threads: the rows left of its last statement
    pc,          \* where each connection's handle_client thread is
    reqs,        \* the requests each connection's thread has received, in order
    out,         \* the responses written to each connection, in order
    user,        \* handle_client local `user`
    event,       \* handle_client local `event`
    ticket_cost, \* handle_client local `ticket_cost`
    eff,         \* which writes of its current purchase each thread has executed
    diskEff,     \* eff as of the last commit
    start,       \* the database the server started with
    prior,       \* the purchase rows the request's user_id had when it was received
    sent,        \* the requests each connection's client has written, in order
    wire         \* the symbols written to each connection and not yet read by recv

vars == <<users, events, purchases, disk, cursor, pc, reqs, out, user, event,
          ticket_cost, eff, diskEff, start, prior, sent, wire>>

\* the two ends of the sockets
net == <<sent, wire>>

\* --------------------------------------------------------------- helpers
RECURSIVE SumSeq(_)
SumSeq(s) == IF s = <<>> THEN 0 ELSE Head(s) + SumSeq(Tail(s))

req(w) == reqs[w][Len(reqs[w])]

Received == SumSeq([w \in Workers |-> Len(reqs[w])])

\* ------------------------------------------------------------- the store
UserRow(name, pw, pts) == [username |-> name, password |-> pw, points |-> pts]
EventRow(a, v) ==
    [available_tickets |-> a, vip_tickets |-> v,
     regular_cost |-> RegularCost, vip_cost |-> VipCost]
PurchaseRow(u, e, t) == [user_id |-> u, event_id |-> e, ticket_type |-> t]

Tables == [users |-> users, events |-> events, purchases |-> purchases]

\* SELECT points FROM users WHERE id = ?
SelectPoints(uid) ==
    IF uid \in DOMAIN users THEN << <<users[uid].points>> >> ELSE <<>>

\* SELECT available_tickets, vip_tickets, regular_cost, vip_cost FROM events WHERE id = ?
SelectEvent(eid) ==
    IF eid \in DOMAIN events
    THEN << <<events[eid].available_tickets, events[eid].vip_tickets,
              events[eid].regular_cost, events[eid].vip_cost>> >>
    ELSE <<>>

CountPurchases(table, uid) ==
    Len(SelectSeq(table, LAMBDA r : r.user_id = uid))

\* SELECT COUNT(*) FROM purchases WHERE user_id = ?
SelectCount(uid) == << <<CountPurchases(purchases, uid)>> >>

\* cursor.fetchone(): the next row of the cursor's last statement, or None
FetchOne == IF cursor = <<>> THEN None ELSE Head(cursor)
AfterFetch == IF cursor = <<>> THEN <<>> ELSE Tail(cursor)

\* FOREIGN KEY(...) with PRAGMA foreign_keys = ON: NULL or an existing row
ForeignKeyOk(id, table) == id = NoId \/ id \in DOMAIN table

\* ------------------------------------------------------------- responses
Response(w, status, message, ttype, n) ==
    [re |-> Len(reqs[w]), status |-> status, message |-> message,
     ticket_type |-> ttype, n |-> n, user_id |-> NoId, data |-> <<>>]

\* send_response(client_socket, ...)
send_response(w, status, message, ttype, n) ==
    out' = [out EXCEPT ![w] = Append(@, Response(w, status, message, ttype, n))]

\* except Exception: answer "An error occurred", break, client_socket.close()
Raise(w) ==
    /\ send_response(w, "error", "An error occurred", "", 0)
    /\ pc' = [pc EXCEPT ![w] = "closed"]

\* ------------------------------------------------------- purchase pricing
\* ticket_cost = vip_cost if ticket_type == "VIP" else regular_cost;
\* if purchase_count >= 3: ticket_cost = int(ticket_cost * 0.9)
TicketCost(ticket_type, regular_cost, vip_cost, purchase_count) ==
    LET cost == IF ticket_type = "VIP" THEN vip_cost ELSE regular_cost
    IN  IF purchase_count >= LoyaltyCount THEN (cost * 9) \div 10 ELSE cost

\* Guard with the sold-out checks put before the points check
GuardSoldOutFirst(ticket_type, cost, user_points, available_tickets, vip_tickets) ==
    IF ticket_type = "VIP" /\ vip_tickets <= 0 THEN "VIP tickets sold out"
    ELSE IF ticket_type = "Regular" /\ available_tickets <= 0
         THEN "Regular tickets sold out"
    ELSE IF cost > user_points THEN "Not enough points"
    ELSE "ok"

\* Guard with `vip_tickets < 0` for `vip_tickets <= 0`
GuardVipOffByOne(ticket_type, cost, user_points, available_tickets, vip_tickets) ==
    IF cost > user_points THEN "Not enough points"
    ELSE IF ticket_type = "VIP" /\ vip_tickets < 0 THEN "VIP tickets sold out"
    ELSE IF ticket_type = "Regular" /\ available_tickets <= 0
         THEN "Regular tickets sold out"
    ELSE "ok"

\* the if/elif chain of purchase_ticket: the message of the error, or "ok"
Guard(ticket_type, cost, user_points, available_tickets, vip_tickets) ==
    IF cost > user_points THEN "Not enough points"
    ELSE IF ticket_type = "VIP" /\ vip_tickets <= 0 THEN "VIP tickets sold out"
    ELSE IF ticket_type = "Regular" /\ available_tickets <= 0
         THEN "Regular tickets sold out"
    ELSE "ok"

\* ------------------------------------------------------------------ Init
\* The database file outlives the server: it starts with the users, the
\* purchases and the inventory earlier runs left.
Histories ==
    { [points |-> DefaultPoints, rows |-> <<>>],
      [points |-> DefaultPoints - VipCost, rows |-> <<"VIP">>],
      [points |-> DefaultPoints + 100 - 3 * RegularCost,
       rows |-> <<"Regular", "Regular", "Regular">>] }

Init ==
    /\ \E h \in Histories, a \in 0..MaxTickets, v \in 0..MaxTickets :
          /\ users = << UserRow(Str("alice"), Str("pw1"), h.points),
                        UserRow(Str("bob"), Str("pw2"), DefaultPoints) >>
          /\ events = << EventRow(a, v) >>
          /\ purchases = [i \in 1..Len(h.rows) |-> PurchaseRow(1, 1, h.rows[i])]
    /\ disk = Tables
    /\ start = Tables
    /\ cursor = <<>>
    /\ pc = [w \in Workers |-> "idle"]
    /\ reqs = [w \in Workers |-> <<>>]
    /\ out = [w \in Workers |-> <<>>]
    /\ user = [w \in Workers |-> None]
    /\ event = [w \in Workers |-> None]
    /\ ticket_cost = [w \in Workers |-> 0]
    /\ eff = [w \in Workers |-> {}]
    /\ diskEff = [w \in Workers |-> {}]
    /\ prior = [w \in Workers |-> 0]
    /\ sent = [w \in Workers |-> <<>>]
    /\ wire = [w \in Workers |-> <<>>]

\* -------------------------------------------------------------- requests
\* amount_type is the JSON type of the request's amount: a number; a boolean
\* (Python True and False, which compare and add as 1 and 0); a string (amount
\* then is the number it spells); or null, for an amount that is absent
Request(action, uid, eid, ttype, userid, amount, name, pw) ==
    [action |-> action, user_id |-> uid, event_id |-> eid, ticket_type |-> ttype,
     userid |-> userid, amount |-> amount, username |-> name, password |-> pw,
     amount_type |-> "number"]

PurchaseRequests ==
    { Request("purchase_ticket", u, 1, t, NoId, 0, <<>>, <<>>) :
        u \in 1..3, t \in TicketTypes }
AddFundsRequests ==
    { Request("add_funds", NoId, NoId, "", 1, a, <<>>, <<>>) : a \in {-50, 0, 50} }
RegisterRequests ==
    { Request("register", NoId, NoId, "", NoId, 0, Str("carol"), Str("pw3")) }

\* the first step of each action's branch in handle_client
FirstStep(action) ==
    CASE action = "purchase_ticket" -> "select_points"
      [] action = "register" -> "insert_user"
      [] action = "add_funds" -> "check_amount"
      [] action = "login" -> "select_login"
      [] action = "check_points" -> "select_balance"
      [] action = "view_events" -> "select_events"
      [] action = "view_purchases" -> "vp_check"
      [] action = "diagnose_db" -> "diagnose"
      [] OTHER -> "idle"

ExecuteSteps ==
    {"select_points", "select_event", "select_count", "update_points",
     "update_tickets", "insert_purchase", "insert_user", "update_funds",
     "select_login"}
FetchSteps == {"fetch_user", "fetch_event", "fetch_count", "fetch_login"}

Goto(w, step) == pc' = [pc EXCEPT ![w] = step]

\* action = request.get("action") and the if/elif chain on it
Dispatch(w, r) ==
    /\ reqs' = [reqs EXCEPT ![w] = Append(@, r)]
    /\ Goto(w, FirstStep(r.action))
    /\ eff' = [eff EXCEPT ![w] = {}]
    /\ prior' = [prior EXCEPT ![w] = CountPurchases(purchases, r.user_id)]
    /\ UNCHANGED <<users, events, purchases, disk, cursor, out, user, event,
                   ticket_cost, diskEff, start>>

\* data = client_socket.recv(1024); request = json.loads(data); action = ...
\* (the client writes r and one recv returns exactly the text of r)
Receive(w, r) ==
    /\ pc[w] = "idle"
    /\ Received < MaxRequests
    /\ Dispatch(w, r)
    /\ UNCHANGED net

\* ------------------------------------------------------- purchase_ticket
\* cursor.execute("SELECT points FROM users WHERE id = ?", (user_id,))
SelectPointsStep(w) ==
    /\ pc[w] = "select_points"
    /\ cursor' = SelectPoints(req(w).user_id)
    /\ Goto(w, "fetch_user")
    /\ UNCHANGED <<users, events, purchases, disk, reqs, out, user, event,
                   ticket_cost, eff, diskEff, start, net, prior>>

\* user = cursor.fetchone()
FetchUserStep(w) ==
    /\ pc[w] = "fetch_user"
    /\ user' = [user EXCEPT ![w] = FetchOne]
    /\ cursor' = AfterFetch
    /\ Goto(w, "select_event")
    /\ UNCHANGED <<users, events, purchases, disk, reqs, out, event,
                   ticket_cost, eff, diskEff, start, net, prior>>

\* cursor.execute("SELECT available_tickets, ... FROM events WHERE id = ?", ...)
SelectEventStep(w) ==
    /\ pc[w] = "select_event"
    /\ cursor' = SelectEvent(req(w).event_id)
    /\ Goto(w, "fetch_event")
    /\ UNCHANGED <<users, events, purchases, disk, reqs, out, user, event,
                   ticket_cost, eff, diskEff, start, net, prior>>

\* event = cursor.fetchone()
FetchEventStep(w) ==
    /\ pc[w] = "fetch_event"
    /\ event' = [event EXCEPT ![w] = FetchOne]
    /\ cursor' = AfterFetch
    /\ Goto(w, "select_count")
    /\ UNCHANGED <<users, events, purchases, disk, reqs, out, user,
                   ticket_cost, eff, diskEff, start, net, prior>>

\* cursor.execute("SELECT COUNT(*) FROM purchases WHERE user_id = ?", ...)
SelectCountStep(w) ==
    /\ pc[w] = "select_count"
    /\ cursor' = SelectCount(req(w).user_id)
    /\ Goto(w, "fetch_count")
    /\ UNCHANGED <<users, events, purchases, disk, reqs, out, user, event,
                   ticket_cost, eff, diskEff, start, net, prior>>

\* the write block put after the if/elif chain, not in its else branch
NextStepAlways(verdict) == "update_points"

\* where the handler goes from the if/elif chain: an error branch only
\* answers, the else branch is the write block
NextStep(verdict) == IF verdict = "ok" THEN "update_points" ELSE "idle"

\* purchase_count = cursor.fetchone()[0], then the pricing and the guards
\* up to the answer of a rejected purchase
FetchCountStep(w) ==
    /\ pc[w] = "fetch_count"
    /\ cursor' = AfterFetch
    /\ UNCHANGED <<users, events, purchases, disk, reqs, user, event,
                   eff, diskEff, start, net, prior>>
    /\ IF FetchOne = None
       THEN \* None[0]: TypeError
            Raise(w) /\ UNCHANGED ticket_cost
       ELSE IF user[w] = None \/ event[w] = None
       THEN \* `if user and event` is false: no branch answers
            Goto(w, "idle") /\ UNCHANGED <<out, ticket_cost>>
       ELSE IF Len(event[w]) # 4
       THEN \* the unpacking of `event` raises ValueError
            Raise(w) /\ UNCHANGED ticket_cost
       ELSE LET cost == TicketCost(req(w).ticket_type, event[w][3], event[w][4],
                                   FetchOne[1])
                verdict == Guard(req(w).ticket_type, cost, user[w][1],
                                 event[w][1], event[w][2])
            IN  /\ ticket_cost' = [ticket_cost EXCEPT ![w] = cost]
                /\ Goto(w, NextStep(verdict))
                /\ IF verdict = "ok"
                   THEN UNCHANGED out
                   ELSE send_response(w, "error", verdict, "", 0)

\* cursor.execute("UPDATE users SET points = points - ? WHERE id = ?", ...)
UpdatePointsStep(w) ==
    /\ pc[w] = "update_points"
    /\ LET uid == req(w).user_id
       IN  IF uid \in DOMAIN users
           THEN /\ users' = [users EXCEPT ![uid].points = @ - ticket_cost[w]]
                /\ eff' = [eff EXCEPT ![w] = @ \cup {"debit"}]
           ELSE UNCHANGED <<users, eff>>
    /\ cursor' = <<>>
    /\ Goto(w, "update_tickets")
    /\ UNCHANGED <<events, purchases, disk, reqs, out, user, event,
                   ticket_cost, diskEff, start, net, prior>>

\* UPDATE events SET vip_tickets = vip_tickets - 1 (VIP), else
\* UPDATE events SET available_tickets = available_tickets - 1
UpdateTicketsStep(w) ==
    /\ pc[w] = "update_tickets"
    /\ LET eid == req(w).event_id
       IN  IF eid \in DOMAIN events
           THEN /\ events' =
                     IF req(w).ticket_type = "VIP"
                     THEN [events EXCEPT ![eid].vip_tickets = @ - 1]
                     ELSE [events EXCEPT ![eid].available_tickets = @ - 1]
                /\ eff' = [eff EXCEPT ![w] = @ \cup {"decrement"}]
           ELSE UNCHANGED <<events, eff>>
    /\ cursor' = <<>>
    /\ Goto(w, "insert_purchase")
    /\ UNCHANGED <<users, purchases, disk, reqs, out, user, event,
                   ticket_cost, diskEff, start, net, prior>>

\* INSERT OR REPLACE on the id of the newest row, for INSERT
ReplaceNewest(table, row) ==
    IF table = <<>> THEN <<row>> ELSE [table EXCEPT ![Len(table)] = row]

\* INSERT INTO purchases: id INTEGER PRIMARY KEY AUTOINCREMENT gives the new
\* row an id above every id the table has had
InsertPurchase(table, row) == Append(table, row)

\* cursor.execute("INSERT INTO purchases (user_id, event_id, ticket_type) ...")
InsertPurchaseStep(w) ==
    /\ pc[w] = "insert_purchase"
    /\ UNCHANGED <<users, events, disk, reqs, user, event, ticket_cost,
                   diskEff, start, net, prior>>
    /\ IF req(w).ticket_type = Unbindable
       THEN \* the parameter cannot be bound: the statement does not run
            Raise(w) /\ UNCHANGED <<purchases, cursor, eff>>
       ELSE IF ~ (/\ ForeignKeyOk(req(w).user_id, users)
                  /\ ForeignKeyOk(req(w).event_id, events))
       THEN \* sqlite3.IntegrityError is an Exception: the outer handler
            Raise(w) /\ cursor' = <<>> /\ UNCHANGED <<purchases, eff>>
       ELSE /\ purchases' = InsertPurchase(purchases,
                   PurchaseRow(req(w).user_id, req(w).event_id, req(w).ticket_type))
            /\ eff' = [eff EXCEPT ![w] = @ \cup {"row"}]
            /\ cursor' = <<>>
            /\ Goto(w, "commit_purchase")
            /\ UNCHANGED out

\* conn.commit(): the one connection's open transaction holds every thread's writes
Commit ==
    /\ disk' = [users |-> users, events |-> events, purchases |-> purchases]
    /\ diskEff' = eff

\* conn.commit(), then the success response
CommitPurchaseStep(w) ==
    /\ pc[w] = "commit_purchase"
    /\ Commit
    /\ send_response(w, "success", "Ticket purchased", req(w).ticket_type,
                     ticket_cost[w])
    /\ Goto(w, "idle")
    /\ UNCHANGED <<users, events, purchases, cursor, reqs, user, event,
                   ticket_cost, eff, start, net, prior>>

\* -------------------------------------------------------------- register
\* cursor.execute("INSERT INTO users (username, password) VALUES (?, ?)", ...)
\* username TEXT UNIQUE: sqlite3.IntegrityError is answered "Username already exists"
InsertUserStep(w) ==
    /\ pc[w] = "insert_user"
    /\ cursor' = <<>>
    /\ UNCHANGED <<events, purchases, disk, reqs, user, event, ticket_cost,
                   eff, diskEff, start, net, prior>>
    /\ IF \E i \in DOMAIN users : users[i].username = req(w).username
       THEN /\ send_response(w, "error", "Username already exists", "", 0)
            /\ Goto(w, "idle")
            /\ UNCHANGED users
       ELSE /\ users' = Append(users,
                   UserRow(req(w).username, req(w).password, DefaultPoints))
            /\ Goto(w, "commit_register")
            /\ UNCHANGED out

\* conn.commit(), then the success response
CommitRegisterStep(w) ==
    /\ pc[w] = "commit_register"
    /\ Commit
    /\ send_response(w, "success", "User registered successfully", "", 0)
    /\ Goto(w, "idle")
    /\ UNCHANGED <<users, events, purchases, cursor, reqs, user, event,
                   ticket_cost, eff, start, net, prior>>

\* Two threads inside cursor.execute of the same INSERT at once: the call of
\* one of them can return without an exception and without a row of its own
\* (the two calls work on the one statement of the shared cursor), so that
\* its handler goes on to commit and to answer success.
InsertUserOverlap(w) ==
    /\ pc[w] = "insert_user"
    /\ \E v \in Workers \ {w} : pc[v] = "insert_user"
    /\ Goto(w, "commit_register")
    /\ UNCHANGED <<users, events, purchases, disk, cursor, reqs, out, user,
                   event, ticket_cost, eff, diskEff, start, net, prior>>

\* ------------------------------------------------------------- add_funds
\* `amount < 0` for `amount <= 0`
InvalidAmountNegative(amount) == amount < 0

\* if amount <= 0:
InvalidAmount(amount) == amount <= 0

\* userid = request.get("userid"); amount = request.get("amount");
\* if amount <= 0: answer "Invalid amount"
CheckAmountStep(w) ==
    /\ pc[w] = "check_amount"
    /\ IF req(w).amount_type \in {"string", "null"}
       THEN \* `amount <= 0` of a str or of None: TypeError
            Raise(w)
       ELSE IF InvalidAmount(req(w).amount)
       THEN /\ send_response(w, "error", "Invalid amount", "", 0)
            /\ Goto(w, "idle")
       ELSE Goto(w, "update_funds") /\ UNCHANGED out
    /\ UNCHANGED <<users, events, purchases, disk, cursor, reqs, user, event,
                   ticket_cost, eff, diskEff, start, net, prior>>

\* cursor.execute("UPDATE users SET points = points + ? WHERE id = ?", (amount, userid))
UpdateFundsStep(w) ==
    /\ pc[w] = "update_funds"
    /\ LET uid == req(w).userid
       IN  users' = IF uid \in DOMAIN users
                    THEN [users EXCEPT ![uid].points = @ + req(w).amount]
                    ELSE users
    /\ cursor' = <<>>
    /\ Goto(w, "commit_funds")
    /\ UNCHANGED <<events, purchases, disk, reqs, out, user, event,
                   ticket_cost, eff, diskEff, start, net, prior>>

\* conn.commit(), then the success response
CommitFundsStep(w) ==
    /\ pc[w] = "commit_funds"
    /\ Commit
    /\ send_response(w, "success", "Added points", "", req(w).amount)
    /\ Goto(w, "idle")
    /\ UNCHANGED <<users, events, purchases, cursor, reqs, user, event,
                   ticket_cost, eff, start, net, prior>>

\* ----------------------------------------------------------------- login
\* query = f"SELECT id, points FROM users WHERE username = '{username}'
\*           AND password = '{password}'": the text after WHERE, symbol by symbol
LoginQuery(username, password) ==
    <<"username", "=", Quote>> \o username
        \o <<Quote, "AND", "password", "=", Quote>> \o password \o <<Quote>>

\* What SQLite reads in that text.  A quote opens a string literal, which
\* runs to the next quote that is not doubled (two quotes in a literal are
\* one quote of its value); outside a literal two dashes start a comment that
\* runs to the end, and every other symbol is a token of its own.  A literal
\* left open at the end of the text is an error.
Word(sym) == [k |-> IF sym \in {"=", "AND"} THEN sym ELSE "id", v |-> <<sym>>]
Literal(value) == [k |-> "str", v |-> value]
Unreadable == <<[k |-> "error", v |-> <<>>]>>

RECURSIVE LexCode(_, _, _), LexLiteral(_, _, _, _)
LexCode(q, i, toks) ==
    IF i > Len(q) THEN toks
    ELSE IF q[i] = Quote THEN LexLiteral(q, i + 1, <<>>, toks)
    ELSE IF q[i] = Dashes THEN toks
    ELSE LexCode(q, i + 1, Append(toks, Word(q[i])))
LexLiteral(q, i, value, toks) ==
    IF i > Len(q) THEN Unreadable
    ELSE IF q[i] # Quote THEN LexLiteral(q, i + 1, Append(value, q[i]), toks)
    ELSE IF i < Len(q) /\ q[i + 1] = Quote
         THEN LexLiteral(q, i + 2, Append(value, Quote), toks)
    ELSE LexCode(q, i + 1, Append(toks, Literal(value)))

Tokens(q) == LexCode(q, 1, <<>>)

\* The WHERE clauses this text can come to and SQLite accepts:
\* column = 'literal' { AND column = 'literal' }, column a column of users.
\* A word next to a literal, or a literal left open, is a syntax error.
WellFormed(toks) ==
    /\ Len(toks) % 4 = 3
    /\ \A j \in DOMAIN toks :
          CASE j % 4 = 1 -> toks[j].k = "id"
                            /\ toks[j].v \in {Str("username"), Str("password")}
            [] j % 4 = 2 -> toks[j].k = "="
            [] j % 4 = 3 -> toks[j].k = "str"
            [] OTHER     -> toks[j].k = "AND"

Column(row, name) == IF name = Str("username") THEN row.username ELSE row.password

\* the row satisfies every comparison of the clause (text, compared exactly)
Satisfies(row, toks) ==
    \A j \in DOMAIN toks : j % 4 = 1 => Column(row, toks[j].v) = toks[j + 2].v

RECURSIVE LoginRows(_, _)
\* SELECT id, points FROM users WHERE <toks>, in the order of the ids
LoginRows(toks, i) ==
    IF i > Len(users) THEN <<>>
    ELSE (IF Satisfies(users[i], toks) THEN << <<i, users[i].points>> >> ELSE <<>>)
         \o LoginRows(toks, i + 1)

\* cursor.execute(query)
SelectLoginStep(w) ==
    /\ pc[w] = "select_login"
    /\ LET toks == Tokens(LoginQuery(req(w).username, req(w).password))
       IN  IF WellFormed(toks)
           THEN /\ cursor' = LoginRows(toks, 1)
                /\ Goto(w, "fetch_login")
                /\ UNCHANGED out
           ELSE \* sqlite3.OperationalError is an Exception: the outer handler
                Raise(w) /\ UNCHANGED cursor
    /\ UNCHANGED <<users, events, purchases, disk, reqs, user, event,
                   ticket_cost, eff, diskEff, start, net, prior>>

\* the success response of login: user[0] and user[1]
LoginResponse(w, row) ==
    [Response(w, "success", "", "", row[2]) EXCEPT !.user_id = row[1]]

\* user = cursor.fetchone(); if user: success with user[0], user[1];
\* else: "Invalid credentials"
FetchLoginStep(w) ==
    /\ pc[w] = "fetch_login"
    /\ user' = [user EXCEPT ![w] = FetchOne]
    /\ cursor' = AfterFetch
    /\ IF FetchOne = None
       THEN /\ send_response(w, "error", "Invalid credentials", "", 0)
            /\ Goto(w, "idle")
       ELSE IF Len(FetchOne) < 2
       THEN \* user[1] of a row of one column: IndexError
            Raise(w)
       ELSE /\ out' = [out EXCEPT ![w] = Append(@, LoginResponse(w, FetchOne))]
            /\ Goto(w, "idle")
    /\ UNCHANGED <<users, events, purchases, disk, reqs, event,
                   ticket_cost, eff, diskEff, start, net, prior>>

\* ----------------------------------------------------- the other actions
store == <<users, events, purchases, disk, eff, diskEff, start, prior, net>>
locals == <<user, event, ticket_cost>>

\* a success response with a payload (points, events, purchases, diagnosis)
send_data(w, message, n, data) ==
    out' = [out EXCEPT ![w] =
              Append(@, [Response(w, "success", message, "", n) EXCEPT !.data = data])]

\* check_points: cursor.execute("SELECT points FROM users WHERE id = ?", (user_id,))
SelectBalanceStep(w) ==
    /\ pc[w] = "select_balance"
    /\ cursor' = SelectPoints(req(w).user_id)
    /\ Goto(w, "fetch_balance")
    /\ UNCHANGED <<store, locals, reqs, out>>

\* user = cursor.fetchone(); if user: success with user[0]; no else branch
FetchBalanceStep(w) ==
    /\ pc[w] = "fetch_balance"
    /\ user' = [user EXCEPT ![w] = FetchOne]
    /\ cursor' = AfterFetch
    /\ IF FetchOne = None THEN UNCHANGED out
       ELSE send_data(w, "", FetchOne[1], <<>>)
    /\ Goto(w, "idle")
    /\ UNCHANGED <<store, event, ticket_cost, reqs>>

\* SELECT * FROM events: id, name, available_tickets, vip_tickets, regular_cost, vip_cost
SelectAllEvents ==
    [e \in DOMAIN events |->
        <<e, "LiSA Live Concert", events[e].available_tickets,
          events[e].vip_tickets, events[e].regular_cost, events[e].vip_cost>>]

\* view_events: cursor.execute("SELECT * FROM events")
SelectEventsStep(w) ==
    /\ pc[w] = "select_events"
    /\ cursor' = SelectAllEvents
    /\ Goto(w, "fetch_events")
    /\ UNCHANGED <<store, locals, reqs, out>>

\* events = cursor.fetchall(); event[0] .. event[5] of every row; success
FetchEventsStep(w) ==
    /\ pc[w] = "fetch_events"
    /\ cursor' = <<>>
    /\ IF \E i \in DOMAIN cursor : Len(cursor[i]) < 6
       THEN \* IndexError on a row of another statement
            Raise(w)
       ELSE send_data(w, "", 0, cursor) /\ Goto(w, "idle")
    /\ UNCHANGED <<store, locals, reqs>>

\* view_purchases: if not user_id: "User ID is required"; return
\* (the return leaves handle_client: the thread ends, the socket is not closed)
ViewCheckStep(w) ==
    /\ pc[w] = "vp_check"
    /\ IF req(w).user_id = NoId
       THEN /\ send_response(w, "error", "User ID is required", "", 0)
            /\ Goto(w, "returned")
       ELSE Goto(w, "vp_select_user") /\ UNCHANGED out
    /\ UNCHANGED <<store, locals, reqs, cursor>>

\* cursor.execute("SELECT id FROM users WHERE id = ?", (user_id,))
ViewSelectUserStep(w) ==
    /\ pc[w] = "vp_select_user"
    /\ cursor' = IF req(w).user_id \in DOMAIN users
                 THEN << <<req(w).user_id>> >> ELSE <<>>
    /\ Goto(w, "vp_fetch_user")
    /\ UNCHANGED <<store, locals, reqs, out>>

\* user_result = cursor.fetchone(); if not user_result: "User not found"; return
ViewFetchUserStep(w) ==
    /\ pc[w] = "vp_fetch_user"
    /\ cursor' = AfterFetch
    /\ IF FetchOne = None
       THEN /\ send_response(w, "error", "User not found", "", 0)
            /\ Goto(w, "returned")
       ELSE Goto(w, "vp_select_purchases") /\ UNCHANGED out
    /\ UNCHANGED <<store, locals, reqs>>

\* cursor.execute("SELECT name FROM sqlite_master WHERE type='table' AND name=...")
\* for purchases, then for events: both tables exist from the start
ViewSelectTableStep(w) ==
    /\ pc[w] \in {"vp_select_purchases", "vp_select_events"}
    /\ cursor' = << <<IF pc[w] = "vp_select_purchases" THEN "purchases" ELSE "events">> >>
    /\ Goto(w, IF pc[w] = "vp_select_purchases"
               THEN "vp_fetch_purchases" ELSE "vp_fetch_events")
    /\ UNCHANGED <<store, locals, reqs, out>>

\* if not cursor.fetchone(): "... table does not exist"; return
ViewFetchTableStep(w) ==
    /\ pc[w] \in {"vp_fetch_purchases", "vp_fetch_events"}
    /\ cursor' = AfterFetch
    /\ IF FetchOne = None
       THEN /\ send_response(w, "error",
                    IF pc[w] = "vp_fetch_purchases"
                    THEN "Purchases table does not exist"
                    ELSE "Events table does not exist", "", 0)
            /\ Goto(w, "returned")
       ELSE /\ Goto(w, IF pc[w] = "vp_fetch_purchases"
                       THEN "vp_select_events" ELSE "vp_select_rows")
            /\ UNCHANGED out
    /\ UNCHANGED <<store, locals, reqs>>

\* SELECT p.id, p.event_id, p.ticket_type, ... FROM purchases p LEFT JOIN events e
\* ... WHERE p.user_id = ? ORDER BY p.id DESC
\* (the row without its purchase_date)
\* COALESCE(e.name, 'Unknown Event'): every event of the model has the name
\* of the first seed row
EventName(eid) ==
    IF eid \in DOMAIN events THEN "LiSA Live Concert" ELSE "Unknown Event"

RECURSIVE SelectPurchases(_, _)
SelectPurchases(uid, i) ==
    IF i = 0 THEN <<>>
    ELSE (IF purchases[i].user_id = uid
          THEN << <<i, purchases[i].event_id, purchases[i].ticket_type,
                    EventName(purchases[i].event_id)>> >>
          ELSE <<>>)
         \o SelectPurchases(uid, i - 1)

\* cursor.execute(query, (user_id,))
ViewSelectRowsStep(w) ==
    /\ pc[w] = "vp_select_rows"
    /\ cursor' = SelectPurchases(req(w).user_id, Len(purchases))
    /\ Goto(w, "vp_fetch_rows")
    /\ UNCHANGED <<store, locals, reqs, out>>

\* purchases = cursor.fetchall(); success with the rows ("No purchases found"
\* when there is none); the loop goes on
ViewFetchRowsStep(w) ==
    /\ pc[w] = "vp_fetch_rows"
    /\ cursor' = <<>>
    /\ send_data(w, IF cursor = <<>> THEN "No purchases found" ELSE "", 0, cursor)
    /\ Goto(w, "idle")
    /\ UNCHANGED <<store, locals, reqs>>

\* diagnose_db: counts and columns of the three tables, a sample query, the
\* foreign_keys pragma; every statement reads only; success
DiagnoseStep(w) ==
    /\ pc[w] = "diagnose"
    /\ cursor' = <<>>
    /\ send_data(w, "Database diagnosis complete", 0,
                 <<Len(users), Len(events), Len(purchases)>>)
    /\ Goto(w, "idle")
    /\ UNCHANGED <<store, locals, reqs>>

\* data = client_socket.recv(1024).decode(); json.loads(data) raises on a
\* payload that is no JSON text (or .decode() on bytes that are no UTF-8)
Undecodable == Request("<undecodable>", NoId, NoId, "", NoId, 0, <<>>, <<>>)

\* json.loads raises: the exception path answers, breaks and closes
Undecoded(w) ==
    /\ reqs' = [reqs EXCEPT ![w] = Append(@, Undecodable)]
    /\ out' = [out EXCEPT ![w] =
                 Append(@, [re |-> Len(reqs[w]) + 1, status |-> "error",
                            message |-> "An error occurred", ticket_type |-> "",
                            n |-> 0, user_id |-> NoId, data |-> <<>>])]
    /\ pc' = [pc EXCEPT ![w] = "closed"]
    /\ UNCHANGED <<users, events, purchases, disk, eff, diskEff, start, prior,
                   locals, cursor>>

ReceiveUndecodable(w) ==
    /\ pc[w] = "idle"
    /\ Received < MaxRequests
    /\ Undecoded(w)
    /\ UNCHANGED net

\* ------------------------------------------------------------ the socket
\* The text of a request is three symbols: the opening brace with the first
\* member, the other members, the closing brace.  A client may end the text
\* with a newline (client.py sends json.dumps(request) and no newline).
Newline == "\\n"
Text(r) == << <<"{", r>>, <<"members", r>>, <<"}", r>> >>
Terminators == {<<>>, << <<Newline, Undecodable>> >>}

\* client.send(json.dumps(request).encode())
Send(w, r, t) ==
    /\ SumSeq([v \in Workers |-> Len(sent[v])]) < MaxRequests
    /\ sent' = [sent EXCEPT ![w] = Append(@, r)]
    /\ wire' = [wire EXCEPT ![w] = @ \o Text(r) \o t]
    /\ UNCHANGED <<users, events, purchases, disk, cursor, pc, reqs, out, user,
                   event, ticket_cost, eff, diskEff, start, prior>>

\* the whitespace json.loads skips before and after the value
RECURSIVE LStrip(_), RStrip(_)
LStrip(data) ==
    IF data # <<>> /\ Head(data)[1] = Newline THEN LStrip(Tail(data)) ELSE data
RStrip(data) ==
    IF data # <<>> /\ data[Len(data)][1] = Newline
    THEN RStrip(SubSeq(data, 1, Len(data) - 1)) ELSE data

\* json.loads(data): the request, when data is the whole text of one request
\* and nothing else; JSONDecodeError otherwise (a part of a text, or "Extra
\* data" after the first value)
loads(data) ==
    LET value == RStrip(LStrip(data))
    IN  IF /\ Len(value) = 3
           /\ value[1][1] = "{" /\ value[2][1] = "members" /\ value[3][1] = "}"
        THEN value[2][2]
        ELSE Undecodable

\* data = client_socket.recv(1024).decode(): any n of the symbols that have
\* arrived, then request = json.loads(data)
Recv(w, n) ==
    /\ pc[w] = "idle"
    /\ n \in 1..Len(wire[w])
    /\ wire' = [wire EXCEPT ![w] = SubSeq(@, n + 1, Len(@))]
    /\ UNCHANGED sent
    /\ LET request == loads(SubSeq(wire[w], 1, n))
       IN  IF request = Undecodable THEN Undecoded(w) ELSE Dispatch(w, request)

\* ------------------------------------------------------ the shared cursor
\* A thread that calls the cursor while another thread is inside
\* cursor.execute gets sqlite3.ProgrammingError (recursive use of cursors):
\* an Exception, so the outer handler answers, breaks and closes.
CursorBusy(w) ==
    /\ pc[w] \in ExecuteSteps \cup FetchSteps
    /\ \E v \in Workers \ {w} : pc[v] \in ExecuteSteps
    /\ Raise(w)
    /\ UNCHANGED <<users, events, purchases, disk, cursor, reqs, user, event,
                   ticket_cost, eff, diskEff, start, net, prior>>

\* Two threads inside calls of the one cursor at once is a data race in the
\* sqlite3 module: besides the ProgrammingError above it can end in a memory
\* fault (SIGSEGV, SIGBUS), which kills the process: every handler thread and
\* the accept loop of the main thread.
CursorCrash(w) ==
    /\ pc[w] \in ExecuteSteps \cup FetchSteps
    /\ \E v \in Workers \ {w} : pc[v] \in ExecuteSteps
    /\ pc' = [v \in Workers |-> "killed"]
    /\ UNCHANGED <<users, events, purchases, disk, cursor, reqs, out, user,
                   event, ticket_cost, eff, diskEff, start, net, prior>>

\* recv returns b"" (the peer closed: break) or raises ConnectionResetError
\* (the exception path, whose send_response fails and is passed over); either
\* way the loop is left and the socket closed, with no response
PeerGone(w) ==
    /\ pc[w] = "idle"
    /\ Goto(w, "closed")
    /\ UNCHANGED <<users, events, purchases, disk, cursor, reqs, out, user,
                   event, ticket_cost, eff, diskEff, start, net, prior>>

\* ------------------------------------------------------------------ Next
Requests == PurchaseRequests \cup AddFundsRequests \cup RegisterRequests

Next ==
    \E w \in Workers :
        \/ \E r \in Requests : Receive(w, r)
        \/ SelectPointsStep(w)
        \/ FetchUserStep(w)
        \/ SelectEventStep(w)
        \/ FetchEventStep(w)
        \/ SelectCountStep(w)
        \/ FetchCountStep(w)
        \/ UpdatePointsStep(w)
        \/ UpdateTicketsStep(w)
        \/ InsertPurchaseStep(w)
        \/ CommitPurchaseStep(w)
        \/ InsertUserStep(w)
        \/ InsertUserOverlap(w)
        \/ CommitRegisterStep(w)
        \/ CheckAmountStep(w)
        \/ UpdateFundsStep(w)
        \/ CommitFundsStep(w)
        \/ CursorBusy(w)

Spec == Init /\ [][Next]_vars

\* Two connections that send well-formed purchases only, and whose cursor
\* calls do not overlap in time: the runs of Spec that the purchase races need.
RaceRequests ==
    { Request("purchase_ticket", u, 1, t, NoId, 0, <<>>, <<>>) :
        u \in 1..2, t \in {"Regular", "VIP"} }

NextRace ==
    \E w \in Workers :
        \/ \E r \in RaceRequests : Receive(w, r)
        \/ SelectPointsStep(w)
        \/ FetchUserStep(w)
        \/ SelectEventStep(w)
        \/ FetchEventStep(w)
        \/ SelectCountStep(w)
        \/ FetchCountStep(w)
        \/ UpdatePointsStep(w)
        \/ UpdateTicketsStep(w)
        \/ InsertPurchaseStep(w)
        \/ CommitPurchaseStep(w)

SpecRace == Init /\ [][NextRace]_vars

\* Logins only, on the database of a fresh server with its two users.
RECURSIVE Strings(_, _)
\* the strings of at most n symbols of the alphabet
Strings(alphabet, n) ==
    IF n = 0 THEN {<<>>}
    ELSE LET shorter == Strings(alphabet, n - 1)
         IN  shorter \cup {Append(s, c) : s \in shorter, c \in alphabet}

LoginRequests ==
    { Request("login", NoId, NoId, "", NoId, 0, name, pw) :
        name \in Strings({"alice", Quote, Dashes}, MaxNameLen),
        pw \in Strings({"pw1", Quote}, MaxPassLen) }

InitLogin == Init /\ purchases = <<>> /\ events = <<EventRow(MaxTickets, MaxTickets)>>

NextLogin ==
    \E w \in Workers :
        \/ \E r \in LoginRequests : Receive(w, r)
        \/ SelectLoginStep(w)
        \/ FetchLoginStep(w)

SpecLogin == InitLogin /\ [][NextLogin]_vars

\* Accounts only: register and login on two connections, on the database of
\* a fresh server.  One of the names has a quote in it.
AccountNames == {Str("alice"), Str("carol"), <<"o", Quote, "brien">>}
AccountRequests ==
    { Request(action, NoId, NoId, "", NoId, 0, name, pw) :
        action \in {"register", "login"},
        name \in AccountNames, pw \in {Str("pw1"), Str("pw3")} }

NextAccounts ==
    \E w \in Workers :
        \/ \E r \in AccountRequests : Receive(w, r)
        \/ InsertUserStep(w)
        \/ InsertUserOverlap(w)
        \/ CommitRegisterStep(w)
        \/ SelectLoginStep(w)
        \/ FetchLoginStep(w)
        \/ CursorBusy(w)

SpecAccounts == InitLogin /\ [][NextAccounts]_vars

\* One client: every action of the protocol on a single connection, so that
\* no two threads use the cursor.  User 3 and event 2 do not exist.
Solo == {1}

ServeRequests ==
    { Request("purchase_ticket", u, e, "Regular", NoId, 0, <<>>, <<>>) :
        u \in {1, 3}, e \in {1, 2} }
    \cup { Request("add_funds", 1, NoId, "", NoId, 50, <<>>, <<>>),
           Request("add_funds", NoId, NoId, "", 1, 50, <<>>, <<>>),
           Request("add_funds", NoId, NoId, "", 1, 0, <<>>, <<>>),
           Request("add_funds", NoId, NoId, "", NoId, 50, <<>>, <<>>) }
    \cup { Request(action, NoId, NoId, "", NoId, 0, Str("alice"), pw) :
             action \in {"register", "login"}, pw \in {Str("pw1"), Str("pw3")} }
    \cup { Request("register", NoId, NoId, "", NoId, 0, Str("carol"), Str("pw3")) }
    \cup { Request(action, u, NoId, "", NoId, 0, <<>>, <<>>) :
             action \in {"check_points", "view_purchases"}, u \in {NoId, 1, 3} }
    \cup { Request(action, NoId, NoId, "", NoId, 0, <<>>, <<>>) :
             action \in {"view_events", "diagnose_db", "dance"} }

\* the steps of the handler thread of connection w
ServeSteps(w) ==
    \/ SelectPointsStep(w)
    \/ FetchUserStep(w)
    \/ SelectEventStep(w)
    \/ FetchEventStep(w)
    \/ SelectCountStep(w)
    \/ FetchCountStep(w)
    \/ UpdatePointsStep(w)
    \/ UpdateTicketsStep(w)
    \/ InsertPurchaseStep(w)
    \/ CommitPurchaseStep(w)
    \/ InsertUserStep(w)
    \/ CommitRegisterStep(w)
    \/ CheckAmountStep(w)
    \/ UpdateFundsStep(w)
    \/ CommitFundsStep(w)
    \/ SelectLoginStep(w)
    \/ FetchLoginStep(w)
    \/ SelectBalanceStep(w)
    \/ FetchBalanceStep(w)
    \/ SelectEventsStep(w)
    \/ FetchEventsStep(w)
    \/ ViewCheckStep(w)
    \/ ViewSelectUserStep(w)
    \/ ViewFetchUserStep(w)
    \/ ViewSelectTableStep(w)
    \/ ViewFetchTableStep(w)
    \/ ViewSelectRowsStep(w)
    \/ ViewFetchRowsStep(w)
    \/ DiagnoseStep(w)

NextServe ==
    \E w \in Solo :
        \/ \E r \in ServeRequests : Receive(w, r)
        \/ ReceiveUndecodable(w)
        \/ ServeSteps(w)

SpecServe == Init /\ [][NextServe]_vars

\* The thread of a connection keeps running: a handler that can take a step
\* takes it.  Nothing obliges a client to send a request.
FairServe == SpecServe /\ \A w \in Solo : WF_vars(ServeSteps(w))

\* One client that writes its requests to the socket, and a worker whose
\* recv returns whatever part of them has arrived.
FramedRequests ==
    { Request("add_funds", NoId, NoId, "", 1, a, <<>>, <<>>) : a \in {0, 50} }
    \cup { Request("check_points", 1, NoId, "", NoId, 0, <<>>, <<>>) }

NextFraming ==
    \E w \in Solo :
        \/ \E r \in FramedRequests, t \in Terminators : Send(w, r, t)
        \/ \E n \in 1..Len(wire[w]) : Recv(w, n)
        \/ CheckAmountStep(w)
        \/ UpdateFundsStep(w)
        \/ CommitFundsStep(w)
        \/ SelectBalanceStep(w)
        \/ FetchBalanceStep(w)

SpecFraming == Init /\ [][NextFraming]_vars

\* Two connections, one of which can fail in every way a worker fails: an
\* undecodable payload, a peer that goes away, an exception in the purchase
\* handler (a ticket_type that cannot be bound), the busy cursor.
IsolationRequests ==
    { Request("purchase_ticket", 1, 1, t, NoId, 0, <<>>, <<>>) :
        t \in {"Regular", Unbindable} }
    \cup RegisterRequests

NextIsolation ==
    \E w \in Workers :
        \/ \E r \in IsolationRequests : Receive(w, r)
        \/ ReceiveUndecodable(w)
        \/ PeerGone(w)
        \/ SelectPointsStep(w)
        \/ FetchUserStep(w)
        \/ SelectEventStep(w)
        \/ FetchEventStep(w)
        \/ SelectCountStep(w)
        \/ FetchCountStep(w)
        \/ UpdatePointsStep(w)
        \/ UpdateTicketsStep(w)
        \/ InsertPurchaseStep(w)
        \/ CommitPurchaseStep(w)
        \/ InsertUserStep(w)
        \/ CommitRegisterStep(w)
        \/ CursorBusy(w)
        \/ CursorCrash(w)

SpecIsolation == Init /\ [][NextIsolation]_vars

\* Two clients that look at purchases only, their cursor calls one after
\* the other.
ViewRequests ==
    { Request("view_purchases", u, NoId, "", NoId, 0, <<>>, <<>>) : u \in 1..2 }

ViewSteps(w) ==
    \/ ViewCheckStep(w)
    \/ ViewSelectUserStep(w)
    \/ ViewFetchUserStep(w)
    \/ ViewSelectTableStep(w)
    \/ ViewFetchTableStep(w)
    \/ ViewSelectRowsStep(w)
    \/ ViewFetchRowsStep(w)

NextViews ==
    \E w \in Workers :
        \/ \E r \in ViewRequests : Receive(w, r)
        \/ ViewSteps(w)

SpecViews == Init /\ [][NextViews]_vars

\* Two clients that only read: the list of events and a balance.
ReadRequests ==
    { Request("view_events", NoId, NoId, "", NoId, 0, <<>>, <<>>),
      Request("check_points", 1, NoId, "", NoId, 0, <<>>, <<>>) }

NextReads ==
    \E w \in Workers :
        \/ \E r \in ReadRequests : Receive(w, r)
        \/ SelectEventsStep(w)
        \/ FetchEventsStep(w)
        \/ SelectBalanceStep(w)
        \/ FetchBalanceStep(w)

SpecReads == Init /\ [][NextReads]_vars

\* One client and every action, with purchases of every ticket_type a
\* request can carry.
FrameRequests ==
    ServeRequests
    \cup { Request("purchase_ticket", 1, 1, t, NoId, 0, <<>>, <<>>) :
             t \in TicketTypes }

NextFrame ==
    \E w \in Solo :
        \/ \E r \in FrameRequests : Receive(w, r)
        \/ ServeSteps(w)

SpecFrame == Init /\ [][NextFrame]_vars

\* One client that adds funds, with an amount of every JSON type but the
\* fractional numbers.
FundsRequests ==
    { [Request("add_funds", NoId, NoId, "", 1, a, <<>>, <<>>)
          EXCEPT !.amount_type = t] :
        a \in {0, 1, 50}, t \in {"number", "boolean", "string", "null"} }

NextFunds ==
    \E w \in Solo :
        \/ \E r \in FundsRequests : Receive(w, r)
        \/ CheckAmountStep(w)
        \/ UpdateFundsStep(w)
        \/ CommitFundsStep(w)

SpecFunds == Init /\ [][NextFunds]_vars

\* ------------------------------------------------------- reading a run
AtRest == \A w \in Workers : pc[w] \in {"idle", "closed"}

IsPurchase(r) == r.action = "purchase_ticket"
IsSale(o) == o.status = "success" /\ o.message = "Ticket purchased"

\* every request received so far, of every connection
AllRequests == UNION { {reqs[w][i] : i \in DOMAIN reqs[w]} : w \in Workers }

\* the success responses to purchases of tier t, over all connections
Sales(t) ==
    SumSeq([w \in Workers |->
        Len(SelectSeq(out[w], LAMBDA o : IsSale(o) /\ o.ticket_type = t))])

Counter(table, t) ==
    IF t = "VIP" THEN table[1].vip_tickets ELSE table[1].available_tickets

\* C1: N purchases of one tier of one event holding K tickets, each on its own
\* connection: at most K are answered with success, and the tier's counter
\* ends at K minus the number of successes, never below 0.
NoOversell ==
    \A t \in {"Regular", "VIP"} :
        (/\ AtRest
         /\ \A w \in Workers : Len(reqs[w]) <= 1
         /\ \A r \in AllRequests : IsPurchase(r) /\ r.ticket_type = t)
        => /\ Sales(t) <= Counter(start.events, t)
           /\ Counter(events, t) = Counter(start.events, t) - Sales(t)
           /\ Counter(events, t) >= 0

\* C2: in every committed state the three writes of a purchase (debit,
\* decrement, purchase row) are all there or none of them is.
AtomicPurchase == \A w \in Workers : diskEff[w] \in {{}, Effects}

\* C3: between requests every user's points are >= 0.
PointsNeverNegative ==
    AtRest => \A u \in DOMAIN users : users[u].points >= 0

\* C4: between requests both inventory counters of every event are >= 0.
InventoryNeverNegative ==
    AtRest => \A e \in DOMAIN events :
                 events[e].available_tickets >= 0 /\ events[e].vip_tickets >= 0

\* C5: one Regular ticket left, two connections, two different users with
\* enough points, one Regular purchase each: exactly one is answered with
\* success, the other with "Regular tickets sold out", and no ticket is left.
Affords(r) ==
    /\ r.user_id \in DOMAIN start.users
    /\ start.users[r.user_id].points >=
          TicketCost(r.ticket_type, RegularCost, VipCost,
                     CountPurchases(start.purchases, r.user_id))

OneSaleOneSoldOut(a, b) ==
    /\ Len(out[a]) = 1 /\ IsSale(out[a][1])
    /\ Len(out[b]) = 1 /\ out[b][1].status = "error"
    /\ out[b][1].message = "Regular tickets sold out"

SingleLastTicket ==
    \A a, b \in Workers :
        (/\ a # b
         /\ AtRest
         /\ start.events[1].available_tickets = 1
         /\ \A w \in Workers \ {a, b} : reqs[w] = <<>>
         /\ Len(reqs[a]) = 1 /\ Len(reqs[b]) = 1
         /\ \A w \in {a, b} : /\ IsPurchase(reqs[w][1])
                              /\ reqs[w][1].ticket_type = "Regular"
                              /\ Affords(reqs[w][1])
         /\ reqs[a][1].user_id # reqs[b][1].user_id)
        => /\ OneSaleOneSoldOut(a, b) \/ OneSaleOneSoldOut(b, a)
           /\ events[1].available_tickets = 0

\* the amounts of the success responses of connection w that satisfy Test
Amounts(w, Test(_, _)) ==
    SumSeq([i \in DOMAIN out[w] |->
               IF Test(out[w][i], reqs[w][out[w][i].re]) THEN out[w][i].n ELSE 0])

Credits(u) ==
    SumSeq([w \in Workers |->
        Amounts(w, LAMBDA o, r : /\ o.status = "success"
                                 /\ r.action = "add_funds" /\ r.userid = u)])
Charged(u) ==
    SumSeq([w \in Workers |->
        Amounts(w, LAMBDA o, r : IsSale(o) /\ r.user_id = u)])

\* what 100 + earlier credits - earlier charges came to when the server started
Opening(u) ==
    IF u \in DOMAIN start.users THEN start.users[u].points ELSE DefaultPoints

\* C6: after any sequence of requests each user's points are 100 plus the
\* amounts of the add_funds requests for that user answered with success,
\* minus the prices reported in the success responses of the user's purchases.
BalanceEquation ==
    AtRest => \A u \in DOMAIN users :
                 users[u].points = Opening(u) + Credits(u) - Charged(u)

\* the response to the request connection w received last, if it has one
Answered(w) ==
    /\ reqs[w] # <<>> /\ out[w] # <<>>
    /\ out[w][Len(out[w])].re = Len(reqs[w])
Answer(w) == out[w][Len(out[w])]

\* C7: a successful purchase is charged floor(cost * 9 / 10) when the user
\* has 3 or more purchase rows at the time of the request and the full cost
\* with 0, 1 or 2; cost is the VIP price for VIP, the regular price otherwise.
\* "At the time of the request" is read as widely as it can be: any count the
\* user had between the receipt of the request and its own insert.
LoyaltyPricing ==
    \A w \in Workers :
        (Answered(w) /\ IsSale(Answer(w)))
        => \E c \in prior[w]..(CountPurchases(purchases, req(w).user_id) - 1) :
              Answer(w).n = TicketCost(req(w).ticket_type, RegularCost, VipCost, c)

\* the handler of w's last request has passed the guards of purchase_ticket:
\* `user`, `event` and `ticket_cost` are what the guards were evaluated on
WriteSteps == {"update_points", "update_tickets", "insert_purchase", "commit_purchase"}
Judged(w) ==
    /\ reqs[w] # <<>>
    /\ IsPurchase(req(w))
    /\ \/ pc[w] \in WriteSteps
       \/ pc[w] = "idle" /\ Answered(w)
       \/ pc[w] = "closed" /\ eff[w] # {}

\* the error the guards answered, or that the purchase was carried out
Verdict(w) ==
    IF pc[w] = "idle" /\ Answer(w).status = "error"
    THEN Answer(w).message
    ELSE "carried out"

\* C8, as claimed: the answer of purchase_ticket to a VIP purchase for an
\* existing user and an existing event whose vip_tickets is 0 is always the
\* VIP sold-out error, whatever the user's points are.
VipSoldOutWhateverPoints ==
    \A w \in Workers :
        (/\ pc[w] = "idle" /\ Answered(w)
         /\ IsPurchase(req(w)) /\ req(w).ticket_type = "VIP"
         /\ req(w).user_id \in DOMAIN start.users
         /\ req(w).event_id \in DOMAIN start.events
         /\ start.events[req(w).event_id].vip_tickets = 0
         /\ events[req(w).event_id].vip_tickets = 0)
        => /\ Answer(w).status = "error"
           /\ Answer(w).message = "VIP tickets sold out"

\* C8, amended: a VIP purchase whose handler read a user and an event with
\* vip_tickets = 0 is answered with the VIP sold-out error when the points it
\* read cover the (discounted) VIP price, and with the not-enough-points
\* error when they do not.
VipSoldOutWhenAffordable ==
    \A w \in Workers :
        (Judged(w) /\ req(w).ticket_type = "VIP" /\ event[w][2] = 0)
        => /\ pc[w] = "idle"
           /\ Answer(w).status = "error"
           /\ Answer(w).message = IF ticket_cost[w] > user[w][1]
                                  THEN "Not enough points"
                                  ELSE "VIP tickets sold out"

VipSoldOutWitness ==
    \E w \in Workers :
        /\ Judged(w) /\ req(w).ticket_type = "VIP" /\ event[w][2] = 0
        /\ ticket_cost[w] <= user[w][1]
        /\ Answer(w).message = "VIP tickets sold out"

\* C9: the guards of purchase_ticket in their order, first match wins: cost
\* above the user's points, then VIP with vip_tickets <= 0, then Regular with
\* available_tickets <= 0; the purchase is carried out only when none matches.
GuardOrder ==
    \A w \in Workers :
        Judged(w) =>
            LET t == req(w).ticket_type
                points == user[w][1]
                available_tickets == event[w][1]
                vip_tickets == event[w][2]
            IN  /\ ticket_cost[w] > points
                      => Verdict(w) = "Not enough points"
                /\ (ticket_cost[w] <= points /\ t = "VIP" /\ vip_tickets <= 0)
                      => Verdict(w) = "VIP tickets sold out"
                /\ (/\ ticket_cost[w] <= points
                    /\ ~ (t = "VIP" /\ vip_tickets <= 0)
                    /\ t = "Regular" /\ available_tickets <= 0)
                      => Verdict(w) = "Regular tickets sold out"
                /\ Verdict(w) = "carried out"
                      => /\ ticket_cost[w] <= points
                         /\ ~ (t = "VIP" /\ vip_tickets <= 0)
                         /\ ~ (t = "Regular" /\ available_tickets <= 0)

\* the third guard decided: affordable, Regular, nothing left
GuardOrderWitness ==
    \E w \in Workers :
        /\ Judged(w) /\ req(w).ticket_type = "Regular"
        /\ ticket_cost[w] <= user[w][1] /\ event[w][1] <= 0
        /\ Verdict(w) = "Regular tickets sold out"

\* some stored user has exactly this username and exactly this password
ExactMatch(r) ==
    \E i \in DOMAIN users :
        users[i].username = r.username /\ users[i].password = r.password

\* C10: a login is answered with success and a user id only if some stored
\* user has exactly the supplied username and exactly the supplied password;
\* every other pair of supplied strings is answered "Invalid credentials".
LoginExactMatch ==
    \A w \in Workers :
        (/\ reqs[w] # <<>> /\ req(w).action = "login"
         /\ pc[w] \in {"idle", "closed"})
        => /\ Answered(w)
           /\ Answer(w).status = "success" => ExactMatch(req(w))
           /\ ~ ExactMatch(req(w))
                 => /\ Answer(w).status = "error"
                    /\ Answer(w).message = "Invalid credentials"

\* the rows of a users table with this username
RowsNamed(table, name) == Len(SelectSeq(table, LAMBDA row : row.username = name))

IsRegistered(o) == o.status = "success" /\ o.message = "User registered successfully"
IsRegister(r) == r.action = "register"

\* C11: a register for a username that exists already is answered "Username
\* already exists" and adds no user; of two concurrent registers of one new
\* username on two connections exactly one is answered success, and exactly
\* one row has that username afterwards.
DuplicateRegistration ==
    /\ \A w \in Workers :
          (/\ reqs[w] # <<>> /\ IsRegister(req(w))
           /\ pc[w] \in {"idle", "closed"}
           /\ RowsNamed(start.users, req(w).username) > 0)
          => /\ Answered(w)
             /\ Answer(w).status = "error"
             /\ Answer(w).message = "Username already exists"
             /\ RowsNamed(users, req(w).username)
                   = RowsNamed(start.users, req(w).username)
    /\ \A a, b \in Workers :
          (/\ a # b /\ AtRest
           /\ \A w \in Workers \ {a, b} : reqs[w] = <<>>
           /\ Len(reqs[a]) = 1 /\ Len(reqs[b]) = 1
           /\ IsRegister(reqs[a][1]) /\ IsRegister(reqs[b][1])
           /\ reqs[a][1].username = reqs[b][1].username
           /\ RowsNamed(start.users, reqs[a][1].username) = 0)
          => /\ Cardinality({w \in {a, b} :
                   Len(out[w]) = 1 /\ IsRegistered(out[w][1])}) = 1
             /\ RowsNamed(users, reqs[a][1].username) = 1

\* the responses connection w got to its request number k
ResponsesTo(w, k) == SelectSeq(out[w], LAMBDA o : o.re = k)

\* request k of connection w is a login answered with success
LoggedIn(w, k) ==
    /\ ResponsesTo(w, k) # <<>>
    /\ reqs[w][k].action = "login"
    /\ ResponsesTo(w, k)[1].status = "success"

\* C12: a login(u, p) that follows a successful register(u, p) on the
\* connection is answered with success, 100 points and the id of the row the
\* register created; two logins with the same credentials that both succeed
\* return the same user_id.
RegisterLoginRoundTrip ==
    \A w \in Workers :
        (/\ Len(reqs[w]) = 2 /\ pc[w] \in {"idle", "closed"}
         /\ reqs[w][2].action = "login"
         /\ reqs[w][2].username = reqs[w][1].username
         /\ reqs[w][2].password = reqs[w][1].password)
        => /\ (/\ IsRegister(reqs[w][1])
               /\ ResponsesTo(w, 1) # <<>> /\ IsRegistered(ResponsesTo(w, 1)[1]))
              => /\ LoggedIn(w, 2)
                 /\ Answer(w).n = DefaultPoints
                 /\ Answer(w).user_id \in DOMAIN users \ DOMAIN start.users
                 /\ users[Answer(w).user_id].username = reqs[w][1].username
           /\ (LoggedIn(w, 1) /\ LoggedIn(w, 2))
              => ResponsesTo(w, 1)[1].user_id = Answer(w).user_id

\* connection w has sent one request, and its handler is through with it
FirstHandled(w) == Len(reqs[w]) = 1 /\ pc[w] \in {"idle", "closed", "returned"}

\* C13: an add_funds request with user_id = u, an existing user, and amount
\* a > 0 that is answered with success has raised u's points by a and left
\* the points of every other user as they were.
AddFundsCredits ==
    \A w \in Workers :
        (/\ FirstHandled(w)
         /\ req(w).action = "add_funds"
         /\ req(w).user_id \in DOMAIN start.users /\ req(w).amount > 0
         /\ Answered(w) /\ Answer(w).status = "success")
        => \A u \in DOMAIN start.users :
              users[u].points = start.users[u].points
                  + (IF u = req(w).user_id THEN req(w).amount ELSE 0)

\* connection w's request is an add_funds with amount 0 or a negative amount
AsksNothing(w) ==
    reqs[w] # <<>> /\ req(w).action = "add_funds" /\ req(w).amount <= 0

\* C14: the handler of an add_funds with amount <= 0 takes one step: it
\* answers "Invalid amount", goes back to recv and writes to no table; so a
\* handled request of this kind has that answer.
InvalidAmountRejected ==
    /\ [][\A w \in Workers :
            (AsksNothing(w) /\ pc[w] = "check_amount" /\ pc'[w] # pc[w])
            => /\ pc'[w] = "idle"
               /\ out'[w] = Append(out[w],
                      Response(w, "error", "Invalid amount", "", 0))
               /\ users' = users /\ events' = events /\ purchases' = purchases
               /\ disk' = disk]_vars
    /\ [](\A w \in Workers :
            (AsksNothing(w) /\ pc[w] # "check_amount")
            => /\ pc[w] = "idle" /\ Answered(w)
               /\ Answer(w).status = "error"
               /\ Answer(w).message = "Invalid amount")

\* a negative amount was refused, and the points are those of the start
InvalidAmountWitness ==
    \E w \in Workers :
        /\ AsksNothing(w) /\ req(w).amount < 0 /\ Len(reqs[w]) = 1
        /\ pc[w] = "idle" /\ Answer(w).message = "Invalid amount"
        /\ \A v \in Workers \ {w} : reqs[v] = <<>>
        /\ users = start.users

\* C15: every request a worker receives is eventually answered on its
\* connection, by one response with status success or error; so the k-th
\* response of a connection is the response to its k-th request.
EveryRequestAnswered ==
    /\ \A w \in Workers : \A k \in 1..MaxRequests :
          (Len(reqs[w]) >= k) ~> (Len(ResponsesTo(w, k)) = 1)
    /\ [](\A w \in Workers : \A i \in DOMAIN out[w] :
             out[w][i].re = i /\ out[w][i].status \in {"success", "error"})

\* C16: a purchase_ticket for a user_id or an event_id that does not exist is
\* answered with an error response and changes no points, no inventory and
\* no purchase row.
PurchaseUnknownIds ==
    \A w \in Workers :
        (/\ FirstHandled(w) /\ IsPurchase(req(w))
         /\ \/ req(w).user_id \notin DOMAIN users
            \/ req(w).event_id \notin DOMAIN events)
        => /\ Answered(w) /\ Answer(w).status = "error"
           /\ Tables = start

\* the actions handle_client has a branch for
Actions ==
    {"register", "login", "view_events", "purchase_ticket", "check_points",
     "add_funds", "view_purchases", "diagnose_db"}

\* C17: a request whose action is none of the defined ones is answered with
\* an error response, and the worker is back at recv for the next request.
UnknownActionAnswered ==
    \A w \in Workers :
        (/\ reqs[w] # <<>> /\ req(w) # Undecodable
         /\ req(w).action \notin Actions)
        => /\ pc[w] = "idle"
           /\ Answered(w) /\ Answer(w).status = "error"

\* the request lacks the user id its action requires (request.get gives None)
LacksUserId(r) ==
    \/ r.action \in {"purchase_ticket", "check_points", "view_purchases"}
       /\ r.user_id = NoId
    \/ r.action = "add_funds" /\ r.user_id = NoId /\ r.userid = NoId

\* the messages of handle_client that name a field
FieldMessages == {"User ID is required"}

\* C18: a request that lacks a required field (here: the user id) is answered
\* with an error response naming the field, changes no stored state, and the
\* worker is back at recv.
MissingFieldAnswered ==
    \A w \in Workers :
        (/\ FirstHandled(w) /\ LacksUserId(req(w)))
        => /\ pc[w] = "idle"
           /\ Answered(w) /\ Answer(w).status = "error"
           /\ Answer(w).message \in FieldMessages
           /\ Tables = start /\ disk = start

\* a request of connection w failed: it was answered by the exception path
Failed(w) == \E i \in DOMAIN out[w] : out[w][i].message = "An error occurred"

\* C19: a payload that cannot be decoded, or a store operation that fails,
\* is answered with an error response and the worker goes on serving the
\* connection: it does not close it (no socket of the model is unusable).
RecoverableFailures ==
    \A w \in Workers :
        /\ \A i \in DOMAIN reqs[w] :
              (reqs[w][i] = Undecodable /\ (i < Len(reqs[w]) \/ pc[w] = "idle"))
              => /\ ResponsesTo(w, i) # <<>>
                 /\ ResponsesTo(w, i)[1].status = "error"
        /\ Failed(w) => pc[w] # "closed"

\* the error messages of handle_client for the domain errors
DomainErrors ==
    {"Username already exists", "Invalid credentials", "User not found",
     "Not enough points", "VIP tickets sold out", "Regular tickets sold out",
     "Invalid amount"}

\* the first request of connection w was answered with a domain error
FirstRefused(w) ==
    /\ ResponsesTo(w, 1) # <<>>
    /\ ResponsesTo(w, 1)[1].status = "error"
    /\ ResponsesTo(w, 1)[1].message \in DomainErrors

\* C20: after a request was answered with a domain error the worker of the
\* connection is back at recv, and it answers the next request it receives.
DomainErrorsRecoverable ==
    /\ [](\A w \in Workers :
            (Len(reqs[w]) = 1 /\ FirstRefused(w)) => pc[w] = "idle")
    /\ \A w \in Workers :
          (Len(reqs[w]) = 2 /\ FirstRefused(w)) ~> (ResponsesTo(w, 2) # <<>>)

\* C21: however the symbols of a connection are cut into reads, the requests
\* the worker dispatches are the requests the client wrote, in their order,
\* each once; and once the worker has read all that was written and is back
\* at recv, it has dispatched every one of them.
Framing ==
    \A w \in Workers :
        /\ Len(reqs[w]) <= Len(sent[w])
        /\ \A i \in DOMAIN reqs[w] : reqs[w][i] = sent[w][i]
        /\ (wire[w] = <<>> /\ pc[w] = "idle") => reqs[w] = sent[w]

\* the worker of the connection serves it no more
Stopped == {"closed", "returned", "killed"}

SessionBoundBalance ==
    \A w \in Workers : \A k \in DOMAIN reqs[w] :
        (/\ reqs[w][k].action = "check_points"
         /\ ResponsesTo(w, k) # <<>>
         /\ ResponsesTo(w, k)[1].status = "success")
        => \E j \in 1..(k - 1) :
              /\ LoggedIn(w, j)
              /\ ResponsesTo(w, j)[1].user_id = reqs[w][k].user_id

\* the rows of a view_purchases response are the purchases of user uid:
\* each of them, none of another user, the highest id first, each with its
\* event_id, ticket_type and the name of its event (or the placeholder)
PurchasesOf(uid, data) ==
    /\ \A j \in DOMAIN data :
          /\ Len(data[j]) = 4
          /\ data[j][1] \in DOMAIN purchases
          /\ purchases[data[j][1]].user_id = uid
          /\ data[j][2] = purchases[data[j][1]].event_id
          /\ data[j][3] = purchases[data[j][1]].ticket_type
          /\ data[j][4] = IF data[j][2] \in DOMAIN events
                          THEN "LiSA Live Concert" ELSE "Unknown Event"
    /\ \A i \in DOMAIN purchases :
          purchases[i].user_id = uid => \E j \in DOMAIN data : data[j][1] = i
    /\ \A j, k \in DOMAIN data : j < k => data[j][1] > data[k][1]

\* C24: a view_purchases for an existing user is answered with success and
\* with the purchase rows of that user, all of them and no others, newest first.
ViewOwnPurchases ==
    \A w \in Workers :
        (/\ reqs[w] # <<>> /\ req(w).action = "view_purchases"
         /\ req(w).user_id \in DOMAIN users
         /\ pc[w] \in {"idle", "closed", "returned"})
        => /\ Answered(w) /\ Answer(w).status = "success"
           /\ PurchasesOf(req(w).user_id, Answer(w).data)

\* request i of connection w is a view_events that has been answered
EventsViewed(w, i) ==
    /\ i \in DOMAIN reqs[w] /\ reqs[w][i].action = "view_events"
    /\ ResponsesTo(w, i) # <<>>

\* C25: when no connection has received a purchase_ticket, any two
\* view_events requests that have been answered were answered with success
\* and with the same list of events (ids and both counters of every event).
IdempotentRead ==
    (\A r \in AllRequests : ~ IsPurchase(r))
    => \A a, b \in Workers : \A i, j \in 1..MaxRequests :
          (EventsViewed(a, i) /\ EventsViewed(b, j) /\ <<a, i>> # <<b, j>>)
          => /\ ResponsesTo(a, i)[1].status = "success"
             /\ ResponsesTo(a, i)[1].data = ResponsesTo(b, j)[1].data

ReadOnly == {"login", "view_events", "check_points", "view_purchases"}

\* this step is a step of the handler of connection w's request
Steps(w) == reqs[w] # <<>> /\ pc[w] # "idle" /\ pc'[w] # pc[w]

\* the users table after the step is the one before it but for the points of uid
PointsOnly(uid) ==
    /\ DOMAIN users' = DOMAIN users
    /\ \A u \in DOMAIN users :
          IF u = uid
          THEN users'[u] = [users[u] EXCEPT !.points = users'[u].points]
          ELSE users'[u] = users[u]

\* C26: the steps of login, view_events, check_points and view_purchases
\* change no row; a step that changes users belongs to a register (one new
\* row), a purchase_ticket (lower points of its user) or an add_funds (higher
\* points); a step that changes events belongs to a purchase_ticket; no row of
\* users goes away; and when every handler is through, the events differ
\* from those of the start only if a purchase was answered with success.
FrameEffects ==
    /\ [][\A w \in Workers :
            (Steps(w) /\ req(w).action \in ReadOnly)
            => users' = users /\ events' = events /\ purchases' = purchases]_vars
    /\ [][users' # users =>
            \E w \in Workers :
               /\ Steps(w)
               /\ \/ /\ IsRegister(req(w))
                     /\ Len(users') = Len(users) + 1
                     /\ SubSeq(users', 1, Len(users)) = users
                  \/ /\ IsPurchase(req(w)) /\ PointsOnly(req(w).user_id)
                     /\ users'[req(w).user_id].points < users[req(w).user_id].points
                  \/ /\ req(w).action = "add_funds" /\ PointsOnly(req(w).userid)
                     /\ users'[req(w).userid].points > users[req(w).userid].points]_vars
    /\ [][events' # events => \E w \in Workers : Steps(w) /\ IsPurchase(req(w))]_vars
    /\ [][Len(users') >= Len(users)]_vars
    /\ []((\A w \in Workers : pc[w] \in {"idle", "closed", "returned"})
          => (events # start.events
              => \E w \in Workers : \E i \in DOMAIN out[w] : IsSale(out[w][i])))

\* table `after` is table `before` with rows added at ids above its ids
Extends(after, before) ==
    /\ Len(after) >= Len(before)
    /\ \A i \in DOMAIN before : after[i] = before[i]

\* C27: every step leaves the purchase rows it found as they were, and adds
\* rows only at ids above theirs: on the shared connection and in the
\* committed database.
AppendOnlyLedger ==
    [][/\ Extends(purchases', purchases)
       /\ Extends(disk'.purchases, disk.purchases)]_vars

\* a purchase was recorded and committed on top of the rows of earlier runs
AppendOnlyWitness ==
    /\ start.purchases # <<>>
    /\ Len(disk.purchases) = Len(start.purchases) + 1
    /\ Extends(disk.purchases, start.purchases)

\* C28: every purchase row has ticket_type Regular or VIP; a purchase_ticket
\* with another ticket_type, once handled, has changed no points, no
\* inventory and no purchase row.
TicketTypeChecked ==
    /\ \A i \in DOMAIN purchases : purchases[i].ticket_type \in {"Regular", "VIP"}
    /\ \A w \in Workers :
          (/\ FirstHandled(w) /\ IsPurchase(req(w))
           /\ req(w).ticket_type \notin {"Regular", "VIP"})
          => Tables = start

\* the amount of the request is a positive integer
PositiveInteger(r) == r.amount_type = "number" /\ r.amount > 0

\* C29: an add_funds whose amount is not a positive integer is answered with
\* an error, credits nothing, and the worker is back at recv.
AmountValidated ==
    \A w \in Workers :
        (/\ FirstHandled(w) /\ req(w).action = "add_funds"
         /\ ~ PositiveInteger(req(w)))
        => /\ pc[w] = "idle"
           /\ Answered(w) /\ Answer(w).status = "error"
           /\ users = start.users

\* the messages of the error branches of purchase_ticket
GuardErrors == {"Not enough points", "VIP tickets sold out", "Regular tickets sold out"}

\* the purchase connection w sent last was answered by an error branch
Rejected(w) ==
    /\ Answered(w) /\ IsPurchase(req(w))
    /\ Answer(w).status = "error" /\ Answer(w).message \in GuardErrors

\* C30: the steps of a purchase handler up to its verdict write to no table,
\* on the connection or in the committed database; a purchase answered by an
\* error branch has executed none of its writes and its worker is back at
\* recv; and when no other request has been received, points, inventory and
\* purchase rows are those of before the request.
RejectedPurchaseChangesNothing ==
    /\ [][\A w \in Workers :
            (Steps(w) /\ IsPurchase(req(w)) /\ pc[w] \notin WriteSteps)
            => /\ users' = users /\ events' = events /\ purchases' = purchases
               /\ disk' = disk]_vars
    /\ [](\A w \in Workers :
            Rejected(w)
            => /\ eff[w] = {} /\ pc[w] = "idle"
               /\ Received = 1 => (Tables = start /\ disk = start))

\* a Regular purchase of a user with the points for it was answered
\* "Regular tickets sold out", and nothing has changed
RejectedPurchaseWitness ==
    \E w \in Workers :
        /\ Rejected(w) /\ Received = 1
        /\ Answer(w).message = "Regular tickets sold out"
        /\ req(w).user_id \in DOMAIN users
        /\ users[req(w).user_id].points >= RegularCost
        /\ Tables = start

\* the purchase rows of a table for event e with this ticket_type
RowsOfTier(table, e, t) ==
    Len(SelectSeq(table, LAMBDA row : row.event_id = e /\ row.ticket_type = t))

\* C31: between requests, for every event and both tiers, the inventory the
\* server started with minus the inventory now is the number of purchase rows
\* of that event and tier recorded since the start: Regular rows against
\* available_tickets, VIP rows against vip_tickets.
TicketConservation ==
    (\A w \in Workers : pc[w] \in Stopped \cup {"idle"})
    => \A e \in DOMAIN start.events :
          /\ start.events[e].available_tickets - events[e].available_tickets
                = RowsOfTier(purchases, e, "Regular")
                  - RowsOfTier(start.purchases, e, "Regular")
          /\ start.events[e].vip_tickets - events[e].vip_tickets
                = RowsOfTier(purchases, e, "VIP")
                  - RowsOfTier(start.purchases, e, "VIP")

\* the thread of connection w has left handle_client
WorkerEnded(w) == pc[w] \in {"closed", "returned"}

\* client_socket.close() has been called on connection w: the statement after
\* the loop, which a `break` reaches and a `return` does not
SocketClosed(w) == pc[w] = "closed"

\* C32: a worker that has stopped serving its connection has closed the
\* connection's socket.
ClosedAtEnd == \A w \in Workers : WorkerEnded(w) => SocketClosed(w)

====
